---- MODULE Spec2Model ----
(***************************************************************************)
(* NBA geometry simulator: the zone classifier of app.py and backend.py,   *)
(* the points valuation, the per-zone aggregation, the ranking and delta   *)
(* cards of the Streamlit script, the colour mapper, and the request       *)
(* handlers that run the pipeline over the shared dataset.                 *)
(*                                                                         *)
(* Units.  Distances (SHOT_DISTANCE, the arc distance) are held in         *)
(* hundredths: the value 23.75 is the integer 2375, the raw value 237 is   *)
(* 23700.  LOC_X and LOC_Y are integers in tenths of a foot, as the data   *)
(* source stores them; the comparison y < 92.5 is 10*y < 925.  A mean is   *)
(* a fraction <<n, d>> in lowest terms with d > 0, so that equal means     *)
(* are equal values.                                                       *)
(***************************************************************************)
EXTENDS Integers, Sequences, FiniteSets, TLC

VARIABLES
    row, arc, app_row, backend_row,        \* one record through both classifiers
    pps_in, hue_out,                       \* two calls of pps_to_hsl
    parquet, df,                           \* the file and the loaded dataset
    line_dist, df_processed, zone_stats, shot_pct, baseline_stats, cards,
    calls, heap                            \* concurrent invocations and their frames

vars == << row, arc, app_row, backend_row, pps_in, hue_out, parquet, df,
           line_dist, df_processed, zone_stats, shot_pct, baseline_stats,
           cards, calls, heap >>

None == "None"

\* An absent value is the empty tuple, a present one a one-element tuple.
Nothing == << >>
Some(v) == << v >>

(***************************************************************************)
(* Zone labels                                                             *)
(***************************************************************************)
ZONE_ORDER ==
    << "Paint", "Short Mid-Range", "Long Mid-Range (Sim)",
       "Wing 3 (Sim)", "Corner 3 (Sim)", "Top of Key 3 (Sim)" >>

Zones == { ZONE_ORDER[i] : i \in 1..Len(ZONE_ORDER) }

\* The characters of each label the classifiers return.
Chars(label) ==
    CASE label = "Paint" -> << "P","a","i","n","t" >>
      [] label = "Short Mid-Range" ->
           << "S","h","o","r","t"," ","M","i","d","-","R","a","n","g","e" >>
      [] label = "Long Mid-Range (Sim)" ->
           << "L","o","n","g"," ","M","i","d","-","R","a","n","g","e",
              " ","(","S","i","m",")" >>
      [] label = "Wing 3 (Sim)" ->
           << "W","i","n","g"," ","3"," ","(","S","i","m",")" >>
      [] label = "Corner 3 (Sim)" ->
           << "C","o","r","n","e","r"," ","3"," ","(","S","i","m",")" >>
      [] label = "Top of Key 3 (Sim)" ->
           << "T","o","p"," ","o","f"," ","K","e","y"," ","3",
              " ","(","S","i","m",")" >>

\* Python's  sub in s  on strings.
Contains(sub, s) ==
    \E i \in 1..(Len(s) - Len(sub) + 1) : SubSeq(s, i, i + Len(sub) - 1) = sub

(***************************************************************************)
(* Geometry engine                                                         *)
(***************************************************************************)
Abs(n) == IF n < 0 THEN -n ELSE n

\* row['SHOT_DISTANCE'] / 10 if row['SHOT_DISTANCE'] > 100 else row['SHOT_DISTANCE']
NormDist(raw) == IF raw > 10000 THEN raw \div 10 ELSE raw

\* tan(22 deg) and tan(70 deg) times 10^6, truncated.  No point of the integer
\* grid |x| <= 300, |y| <= 500 lies between the truncated and the true slope.
Tan22 == 404026
Tan70 == 2747477

\* angle = np.arctan2(y, x) * 180 / np.pi, compared with one of 22, 70, 110, 158.
\* For y > 0 the angle lies in (0, 180); for y <= 0 it is <= 0, or 180 (y = 0, x < 0).
AngleGT(x, y, deg) ==
    IF y <= 0 THEN (y = 0 /\ x < 0)
    ELSE CASE deg = 22  -> x <= 0 \/ y * 1000000 > x * Tan22
           [] deg = 70  -> x <= 0 \/ y * 1000000 > x * Tan70
           [] deg = 110 -> x < 0 /\ y * 1000000 < (-x) * Tan70
           [] deg = 158 -> x < 0 /\ y * 1000000 < (-x) * Tan22

AngleLT(x, y, deg) ==
    IF y <= 0 THEN ~(y = 0 /\ x < 0)
    ELSE CASE deg = 22  -> x > 0 /\ y * 1000000 < x * Tan22
           [] deg = 70  -> x > 0 /\ y * 1000000 < x * Tan70
           [] deg = 110 -> x >= 0 \/ y * 1000000 > (-x) * Tan70
           [] deg = 158 -> x >= 0 \/ y * 1000000 > (-x) * Tan22

\* (22 < angle < 70) or (110 < angle < 158)
WingAngle(x, y) ==
    \/ (AngleGT(x, y, 22) /\ AngleLT(x, y, 70))
    \/ (AngleGT(x, y, 110) /\ AngleLT(x, y, 158))

\* app.py simulate_new_zones with a strict corner and arc test
simulate_new_zones_strict(r, new_arc_dist) ==
    LET dist == NormDist(r.SHOT_DISTANCE)
        x == r.LOC_X
        y == r.LOC_Y
        new_corner_dist == new_arc_dist - 175
        is_corner_area == 10 * y < 925
        is_three == \/ (is_corner_area /\ dist > new_corner_dist)
                    \/ (~is_corner_area /\ dist > new_arc_dist)
    IN  IF dist < 800 THEN "Paint"
        ELSE IF dist < 1600 THEN "Short Mid-Range"
        ELSE IF is_three
             THEN IF is_corner_area THEN "Corner 3 (Sim)"
                  ELSE IF WingAngle(x, y) THEN "Wing 3 (Sim)"
                  ELSE "Top of Key 3 (Sim)"
             ELSE "Long Mid-Range (Sim)"

\* app.py simulate_new_zones with the paint test off by one
simulate_new_zones_paint(r, new_arc_dist) ==
    LET dist == NormDist(r.SHOT_DISTANCE)
        x == r.LOC_X
        y == r.LOC_Y
        new_corner_dist == new_arc_dist - 175
        is_corner_area == 10 * y < 925
        is_three == \/ (is_corner_area /\ dist >= new_corner_dist)
                    \/ (~is_corner_area /\ dist >= new_arc_dist)
    IN  IF dist <= 800 THEN "Paint"
        ELSE IF dist < 1600 THEN "Short Mid-Range"
        ELSE IF is_three
             THEN IF is_corner_area THEN "Corner 3 (Sim)"
                  ELSE IF WingAngle(x, y) THEN "Wing 3 (Sim)"
                  ELSE "Top of Key 3 (Sim)"
             ELSE "Long Mid-Range (Sim)"

\* app.py simulate_new_zones
simulate_new_zones(r, new_arc_dist) ==
    LET dist == NormDist(r.SHOT_DISTANCE)
        x == r.LOC_X
        y == r.LOC_Y
        new_corner_dist == new_arc_dist - 175
        is_corner_area == 10 * y < 925
        is_three == \/ (is_corner_area /\ dist >= new_corner_dist)
                    \/ (~is_corner_area /\ dist >= new_arc_dist)
    IN  IF dist < 800 THEN "Paint"
        ELSE IF dist < 1600 THEN "Short Mid-Range"
        ELSE IF is_three
             THEN IF is_corner_area THEN "Corner 3 (Sim)"
                  ELSE IF WingAngle(x, y) THEN "Wing 3 (Sim)"
                  ELSE "Top of Key 3 (Sim)"
             ELSE "Long Mid-Range (Sim)"

\* backend.py simulate_new_zones with the corner test also applied above the break
backend_simulate_new_zones_noelse(r, new_arc_dist) ==
    LET dist == NormDist(r.SHOT_DISTANCE)
        x == r.LOC_X
        y == r.LOC_Y
        x_abs == Abs(x)
        new_corner_dist == new_arc_dist - 175
    IN  IF dist < 800 THEN "Paint"
        ELSE IF dist < 1600 THEN "Short Mid-Range"
        ELSE IF 10 * x_abs >= new_corner_dist /\ x_abs <= 250
             THEN "Corner 3 (Sim)"
        ELSE IF dist >= new_arc_dist
             THEN IF WingAngle(x, y) THEN "Wing 3 (Sim)"
                  ELSE "Top of Key 3 (Sim)"
        ELSE "Long Mid-Range (Sim)"

\* backend.py simulate_new_zones
backend_simulate_new_zones(r, new_arc_dist) ==
    LET dist == NormDist(r.SHOT_DISTANCE)
        x == r.LOC_X
        y == r.LOC_Y
        x_abs == Abs(x)
        new_corner_dist == new_arc_dist - 175
        is_corner_area == 10 * y < 925
    IN  IF dist < 800 THEN "Paint"
        ELSE IF dist < 1600 THEN "Short Mid-Range"
        ELSE IF is_corner_area
             THEN IF 10 * x_abs >= new_corner_dist /\ x_abs <= 250
                  THEN "Corner 3 (Sim)"
                  ELSE "Long Mid-Range (Sim)"
             ELSE IF dist >= new_arc_dist
                  THEN IF WingAngle(x, y) THEN "Wing 3 (Sim)"
                       ELSE "Top of Key 3 (Sim)"
                  ELSE "Long Mid-Range (Sim)"

(***************************************************************************)
(* Points valuation                                                        *)
(***************************************************************************)
\* lambda x: 3 if 'Sim' in x else 2
zone_value_sim(label) ==
    IF Contains(<< "S","i","m" >>, Chars(label)) THEN 3 ELSE 2

\* lambda x: 3 if '3 (Sim)' in x else 2
zone_value(label) ==
    IF Contains(<< "3"," ","(","S","i","m",")" >>, Chars(label)) THEN 3 ELSE 2

\* (3 if '3 (Sim)' in zone else 2) * SHOT_MADE_FLAG, for one row
sim_pts(label, made) == zone_value(label) * made

(***************************************************************************)
(* One record through both classifiers and the valuation                   *)
(***************************************************************************)
\* st.sidebar.slider("3-Point Line Distance (ft)", 22.0, 32.0, 23.75, step=0.25)
SliderArcs == { 2200 + 25 * k : k \in 0..40 }

\* The endpoint checks no range: values outside the slider's are accepted.
Arcs == SliderArcs \cup { 1500, 4000 }

\* Raw SHOT_DISTANCE values: feet (<= 100) and tenths of a foot (> 100).
RawVals ==
    { 0, 500, 799, 800, 1599, 1600, 2200, 2440, 2500, 2524, 2525, 2590,
      2675, 2700, 3000, 3200, 10000,
      10010, 15990, 16000, 23750, 25000, 27000 }

XVals == { -250, -245, -150, 0, 100, 150, 240, 245, 250, 260 }

YVals == { -47, 0, 44, 70, 84, 92, 93, 200, 250, 300 }

Rows ==
    [ SHOT_DISTANCE : RawVals, LOC_X : XVals, LOC_Y : YVals,
      SHOT_MADE_FLAG : {0, 1} ]

IdleZones ==
    /\ row = None /\ arc = None /\ app_row = None /\ backend_row = None

IdleColor == pps_in = None /\ hue_out = None

IdleScript ==
    /\ parquet = None /\ df = None /\ line_dist = None /\ df_processed = None
    /\ zone_stats = None /\ shot_pct = None /\ baseline_stats = None
    /\ cards = None

IdleCalls == calls = None /\ heap = None

InitZones ==
    /\ row \in Rows
    /\ arc \in Arcs
    /\ app_row = Nothing
    /\ backend_row = Nothing
    /\ IdleColor /\ IdleScript /\ IdleCalls

\* app.py: SIM_ZONE and SIM_PTS of one row (compute_zone_data, per row)
AppRow ==
    /\ app_row = Nothing
    /\ LET z == simulate_new_zones(row, arc)
       IN  app_row' = Some([ SIM_ZONE |-> z, SIM_PTS |-> sim_pts(z, row.SHOT_MADE_FLAG) ])
    /\ UNCHANGED << row, arc, backend_row, pps_in, hue_out, parquet, df,
                    line_dist, df_processed, zone_stats, shot_pct,
                    baseline_stats, cards, calls, heap >>

\* backend.py: SIM_ZONE and SIM_PTS of one row (calculate, per row)
BackendRow ==
    /\ backend_row = Nothing
    /\ LET z == backend_simulate_new_zones(row, arc)
       IN  backend_row' = Some([ SIM_ZONE |-> z, SIM_PTS |-> sim_pts(z, row.SHOT_MADE_FLAG) ])
    /\ UNCHANGED << row, arc, app_row, pps_in, hue_out, parquet, df,
                    line_dist, df_processed, zone_stats, shot_pct,
                    baseline_stats, cards, calls, heap >>

NextZones == AppRow \/ BackendRow

SpecZones == InitZones /\ [][NextZones]_vars

\* The normalized distance as the claims define it.
NormalizedDistance(r) ==
    IF r.SHOT_DISTANCE > 10000 THEN r.SHOT_DISTANCE \div 10 ELSE r.SHOT_DISTANCE

InCornerArea(r) == 10 * r.LOC_Y < 925

\* The decision table of C1.
TableZone(r, A) ==
    LET d == NormalizedDistance(r)
        corner == InCornerArea(r)
        three == (corner /\ d >= A - 175) \/ (~corner /\ d >= A)
    IN  CASE ~three -> "Long Mid-Range (Sim)"
          [] three /\ corner -> "Corner 3 (Sim)"
          [] three /\ ~corner /\ WingAngle(r.LOC_X, r.LOC_Y) -> "Wing 3 (Sim)"
          [] OTHER -> "Top of Key 3 (Sim)"

\* C1: for a record of normalized distance >= 16 the app classifier returns
\* the label of the table: Long Mid-Range if not three, Corner 3 if three and
\* corner, else Wing 3 inside the angle bands and Top of Key 3 outside.
C1_ZoneTable ==
    (app_row # Nothing /\ NormalizedDistance(row) >= 1600)
        => app_row[1].SIM_ZONE = TableZone(row, arc)

\* A corner record exactly at the corner cutoff is a Corner 3.
C1_Witness ==
    /\ app_row # Nothing
    /\ InCornerArea(row)
    /\ NormalizedDistance(row) = arc - 175
    /\ app_row[1].SIM_ZONE = "Corner 3 (Sim)"

\* C2: for an arc distance in [22, 32], a record of normalized distance < 8 is
\* Paint and one of normalized distance in [8, 16) is Short Mid-Range, in both
\* classifiers, and no other arc distance of the range gives another label.
C2_FixedZones ==
    LET d == NormalizedDistance(row)
        fixed == IF d < 800 THEN "Paint" ELSE "Short Mid-Range"
    IN  (d < 1600 /\ arc >= 2200 /\ arc <= 3200) =>
          /\ app_row # Nothing =>
                /\ app_row[1].SIM_ZONE = fixed
                /\ \A a \in SliderArcs : simulate_new_zones(row, a) = app_row[1].SIM_ZONE
          /\ backend_row # Nothing =>
                /\ backend_row[1].SIM_ZONE = fixed
                /\ \A a \in SliderArcs :
                      backend_simulate_new_zones(row, a) = backend_row[1].SIM_ZONE

\* A raw distance in tenths of a foot (159.9, normalized 15.99) is Short Mid-Range.
C2_Witness ==
    /\ app_row # Nothing /\ backend_row # Nothing
    /\ row.SHOT_DISTANCE > 10000
    /\ NormalizedDistance(row) < 1600
    /\ app_row[1].SIM_ZONE = "Short Mid-Range"
    /\ backend_row[1].SIM_ZONE = "Short Mid-Range"

\* The recorded distance in feet equals sqrt(LOC_X^2 + LOC_Y^2) / 10.
Consistent(r) ==
    /\ r.SHOT_DISTANCE <= 10000
    /\ r.SHOT_DISTANCE * r.SHOT_DISTANCE
         = 100 * (r.LOC_X * r.LOC_X + r.LOC_Y * r.LOC_Y)

\* C3: for an arc distance > 26.75 the app classifier returns Corner 3 for no
\* record with |LOC_X| <= 250 whose distance is consistent with its coordinates.
C3_NoCorner3 ==
    (app_row # Nothing /\ arc > 2675 /\ Abs(row.LOC_X) <= 250 /\ Consistent(row))
        => app_row[1].SIM_ZONE # "Corner 3 (Sim)"

\* The table of C4: the points of a zone label, made or missed.
TablePts(label, made) ==
    CASE label \in { "Wing 3 (Sim)", "Corner 3 (Sim)", "Top of Key 3 (Sim)" } ->
           IF made = 1 THEN 3 ELSE 0
      [] label \in { "Paint", "Short Mid-Range", "Long Mid-Range (Sim)" } ->
           IF made = 1 THEN 2 ELSE 0

\* C4: SIM_PTS is 3 if made and 0 if missed in Wing 3, Corner 3 and Top of
\* Key 3, and 2 if made and 0 if missed in Paint, Short Mid-Range and Long
\* Mid-Range; every label is one of the six and SIM_PTS is in {0, 2, 3}.
C4_Points ==
    \A o \in { app_row, backend_row } \ { Nothing } :
      LET out == o[1] IN
        /\ out.SIM_ZONE \in Zones
        /\ out.SIM_PTS = TablePts(out.SIM_ZONE, row.SHOT_MADE_FLAG)
        /\ out.SIM_PTS \in { 0, 2, 3 }

\* A made Long Mid-Range (Sim) shot, whose label ends in "(Sim)", is worth 2.
C4_Witness ==
    /\ app_row # Nothing
    /\ row.SHOT_MADE_FLAG = 1
    /\ app_row[1].SIM_ZONE = "Long Mid-Range (Sim)"
    /\ app_row[1].SIM_PTS = 2

\* C10: the two classifiers return the same zone for every record of
\* normalized distance < 16 or with LOC_Y >= 92.5.
C10_Agree ==
    (/\ app_row # Nothing /\ backend_row # Nothing
     /\ (NormalizedDistance(row) < 1600 \/ ~InCornerArea(row)))
        => app_row[1].SIM_ZONE = backend_row[1].SIM_ZONE

\* Above the break and beyond the arc both classifiers say Wing 3.
C10_Witness ==
    /\ app_row # Nothing /\ backend_row # Nothing
    /\ ~InCornerArea(row)
    /\ NormalizedDistance(row) >= 1600
    /\ app_row[1].SIM_ZONE = "Wing 3 (Sim)"
    /\ backend_row[1].SIM_ZONE = "Wing 3 (Sim)"

\* The classifiers do differ on a corner record (not part of the claim's formula).
C10_Differ ==
    /\ app_row # Nothing /\ backend_row # Nothing
    /\ app_row[1].SIM_ZONE # backend_row[1].SIM_ZONE

(***************************************************************************)
(* Fractions: the floats of the program that are quotients of integers     *)
(***************************************************************************)
RECURSIVE GCD(_, _)
GCD(a, b) == IF b = 0 THEN a ELSE GCD(b, a % b)

\* n / d in lowest terms, d > 0
Frac(n, d) ==
    LET g == GCD(Abs(n), Abs(d))
        sgn == IF d < 0 THEN -1 ELSE 1
    IN  << sgn * (n \div g), sgn * (d \div g) >>

FSub(p, q) == Frac(p[1] * q[2] - q[1] * p[2], p[2] * q[2])
FDiv(p, q) == Frac(p[1] * q[2], p[2] * q[1])
FLe(p, q) == p[1] * q[2] <= q[1] * p[2]
FLt(p, q) == p[1] * q[2] < q[1] * p[2]
FMin(p, q) == IF FLe(p, q) THEN p ELSE q
FMax(p, q) == IF FLe(p, q) THEN q ELSE p

(***************************************************************************)
(* Efficiency colour mapper                                                *)
(***************************************************************************)
\* def pps_to_hsl(pps, vmin=0.6, vmax=1.2)
VMIN == << 6, 10 >>
VMAX == << 12, 10 >>

\* pps_to_hsl with the hue scale reversed
pps_to_hsl_reversed(pps, vmin, vmax) ==
    LET t == FDiv(FSub(pps, vmin), FSub(vmax, vmin))
        clamped == FMax(<< 0, 1 >>, FMin(<< 1, 1 >>, t))
        hue == ((clamped[2] - clamped[1]) * 120) \div clamped[2]
    IN  << hue, 75, 42 >>

\* pps_to_hsl: the hue, saturation and lightness of "hsl({hue}, 75%, 42%)".
\* int() truncates; the clamped value is never negative.
pps_to_hsl(pps, vmin, vmax) ==
    LET t == FDiv(FSub(pps, vmin), FSub(vmax, vmin))
        clamped == FMax(<< 0, 1 >>, FMin(<< 1, 1 >>, t))
        hue == (clamped[1] * 120) \div clamped[2]
    IN  << hue, 75, 42 >>

\* The pps values tried: k / 125 for k = 0 .. MaxPpsK (0.6 is 75/125, 1.2 is
\* 150/125), and the largest means a zone can have.
MaxPpsK == 200

PpsGrid == { Frac(k, 125) : k \in 0..MaxPpsK } \cup { << 2, 1 >>, << 3, 1 >> }

InitColor ==
    /\ pps_in \in PpsGrid \X PpsGrid
    /\ hue_out = << Nothing, Nothing >>
    /\ IdleZones /\ IdleScript /\ IdleCalls

\* color = pps_to_hsl(pps), for the i-th of two values
Color(i) ==
    /\ hue_out[i] = Nothing
    /\ hue_out' = [ hue_out EXCEPT ![i] = Some(pps_to_hsl(pps_in[i], VMIN, VMAX)) ]
    /\ UNCHANGED << row, arc, app_row, backend_row, pps_in, parquet, df,
                    line_dist, df_processed, zone_stats, shot_pct,
                    baseline_stats, cards, calls, heap >>

NextColor == \E i \in {1, 2} : Color(i)

SpecColor == InitColor /\ [][NextColor]_vars

\* C8: with vmin = 0.6 and vmax = 1.2 the hue is an integer in [0, 120], 0 for
\* every pps <= 0.6 and 120 for every pps >= 1.2, and pps1 <= pps2 gives
\* hue(pps1) <= hue(pps2); so the hue of 0.6 is strictly below that of 1.2.
C8_HueMonotone ==
    /\ \A i \in {1, 2} : hue_out[i] # Nothing =>
          LET hue == hue_out[i][1][1]
          IN  /\ hue \in 0..120
              /\ FLe(pps_in[i], << 6, 10 >>) => hue = 0
              /\ FLe(<< 12, 10 >>, pps_in[i]) => hue = 120
    /\ (hue_out[1] # Nothing /\ hue_out[2] # Nothing) =>
          /\ FLe(pps_in[1], pps_in[2]) => hue_out[1][1][1] <= hue_out[2][1][1]
          /\ (pps_in[1] = << 3, 5 >> /\ pps_in[2] = << 6, 5 >>)
               => hue_out[1][1][1] < hue_out[2][1][1]

\* Two values strictly inside the range, the lower with the strictly lower hue.
C8_Witness ==
    /\ hue_out[1] # Nothing /\ hue_out[2] # Nothing
    /\ FLt(<< 6, 10 >>, pps_in[1]) /\ FLt(pps_in[1], pps_in[2])
    /\ FLt(pps_in[2], << 12, 10 >>)
    /\ hue_out[1][1][1] < hue_out[2][1][1]

(***************************************************************************)
(* Data frames: the column names and the rows, each row a record           *)
(***************************************************************************)
BaseColumns == << "SHOT_DISTANCE", "LOC_X", "LOC_Y", "SHOT_MADE_FLAG" >>

\* pd.read_parquet('league_shots.parquet')
read_parquet(file) == [ columns |-> BaseColumns, rows |-> file ]

\* _df.copy(): a new frame with the same content
Copy(frame) == [ columns |-> frame.columns, rows |-> frame.rows ]

HasColumn(frame, name) == \E i \in 1..Len(frame.columns) : frame.columns[i] = name

\* frame[name] = values: the column is added, or replaced when it exists
SetColumn(frame, name, values) ==
    [ columns |-> IF HasColumn(frame, name) THEN frame.columns
                  ELSE Append(frame.columns, name),
      rows |-> [ i \in 1..Len(frame.rows) |->
                   (name :> values[i]) @@ frame.rows[i] ] ]

\* frame.apply(simulate_new_zones, args=(dist,), axis=1), with app.py's function
ApplyZones(frame, dist) ==
    [ i \in 1..Len(frame.rows) |-> simulate_new_zones(frame.rows[i], dist) ]

\* frame['SIM_ZONE'].apply(lambda x: 3 if '3 (Sim)' in x else 2) * frame['SHOT_MADE_FLAG']
ApplyPts(frame) ==
    [ i \in 1..Len(frame.rows) |->
        sim_pts(frame.rows[i]["SIM_ZONE"], frame.rows[i]["SHOT_MADE_FLAG"]) ]

\* The keys of frame.groupby('SIM_ZONE'): the labels that occur in the column
GroupKeys(frame) == { frame.rows[i]["SIM_ZONE"] : i \in 1..Len(frame.rows) }

GroupIdx(frame, z) == { i \in 1..Len(frame.rows) : frame.rows[i]["SIM_ZONE"] = z }

RECURSIVE SumOver(_, _, _)
SumOver(frame, name, idx) ==
    IF idx = {} THEN 0
    ELSE LET i == CHOOSE j \in idx : TRUE
         IN  frame.rows[i][name] + SumOver(frame, name, idx \ {i})

\* A mean reported for each of the six zones, 0 where no shot fell
GroupMeanFilled(frame) ==
    [ z \in Zones |->
        IF GroupIdx(frame, z) = {} THEN << 0, 1 >>
        ELSE Frac(SumOver(frame, "SIM_PTS", GroupIdx(frame, z)),
                  Cardinality(GroupIdx(frame, z))) ]

\* frame.groupby('SIM_ZONE')['SIM_PTS'].mean()
GroupMean(frame) ==
    [ z \in GroupKeys(frame) |->
        Frac(SumOver(frame, "SIM_PTS", GroupIdx(frame, z)),
             Cardinality(GroupIdx(frame, z))) ]

\* frame.groupby('SIM_ZONE').size()
GroupSize(frame) ==
    [ z \in GroupKeys(frame) |-> Cardinality(GroupIdx(frame, z)) ]

RECURSIVE SumValues(_, _)
SumValues(f, keys) ==
    IF keys = {} THEN 0
    ELSE LET k == CHOOSE j \in keys : TRUE
         IN  f[k] + SumValues(f, keys \ {k})

\* counts / counts.sum() * 100, element by element (no element, no division)
SharePct(counts) ==
    LET total == SumValues(counts, DOMAIN counts)
    IN  [ z \in DOMAIN counts |-> Frac(counts[z] * 100, total) ]

\* compute_baseline(_df): the mean SIM_PTS per zone at 23.75 ft
compute_baseline(frame) ==
    CHOOSE out \in
      { GroupMean(d3) :
          d3 \in { SetColumn(d2, "SIM_PTS", ApplyPts(d2)) :
          d2 \in { SetColumn(d1, "SIM_ZONE", ApplyZones(d1, 2375)) :
          d1 \in { Copy(frame) } } } } : TRUE

\* compute_zone_data(_df, dist): the processed frame, zone_stats and shot_pct
compute_zone_data(frame, dist) ==
    CHOOSE out \in
      { [ df |-> d3,
          zone_stats |-> GroupMean(d3),
          shot_pct |-> SharePct(GroupSize(d3)) ] :
          d3 \in { SetColumn(d2, "SIM_PTS", ApplyPts(d2)) :
          d2 \in { SetColumn(d1, "SIM_ZONE", ApplyZones(d1, dist)) :
          d1 \in { Copy(frame) } } } } : TRUE

\* mapping.get(key): absent when the key is not in the mapping
Get(mapping, key) ==
    IF key \in DOMAIN mapping THEN Some(mapping[key]) ELSE Nothing

(***************************************************************************)
(* The Streamlit script: ranking and cards                                 *)
(***************************************************************************)
ZONE_DISPLAY(zone) ==
    CASE zone = "Paint" -> "Paint"
      [] zone = "Short Mid-Range" -> "Short Mid-Range"
      [] zone = "Long Mid-Range (Sim)" -> "Long Mid-Range"
      [] zone = "Wing 3 (Sim)" -> "Wing 3"
      [] zone = "Corner 3 (Sim)" -> "Corner 3"
      [] zone = "Top of Key 3 (Sim)" -> "Top of Key 3"

\* [z for z in ZONE_ORDER if keep(z)], for the zones with or without a mean
RECURSIVE FilterOrder(_, _, _)
FilterOrder(order, stats, present) ==
    IF order = << >> THEN << >>
    ELSE LET rest == FilterOrder(Tail(order), stats, present)
         IN  IF (Head(order) \in DOMAIN stats) = present
             THEN << Head(order) >> \o rest
             ELSE rest

\* Insertion that puts z before the zones of equal mean
InsertDescFirst(sorted, z, stats) ==
    LET before == { i \in 1..Len(sorted) : FLt(stats[z], stats[sorted[i]]) }
        n == Cardinality(before)
    IN  SubSeq(sorted, 1, n) \o << z >> \o SubSeq(sorted, n + 1, Len(sorted))

\* z goes after every zone whose mean is >= its own: equal means keep their order
InsertDesc(sorted, z, stats) ==
    LET before == { i \in 1..Len(sorted) : FLe(stats[z], stats[sorted[i]]) }
        n == Cardinality(before)
    IN  SubSeq(sorted, 1, n) \o << z >> \o SubSeq(sorted, n + 1, Len(sorted))

\* sorted(zones, key=lambda z: zone_stats[z], reverse=True): descending and stable
RECURSIVE SortedDesc(_, _)
SortedDesc(zones, stats) ==
    IF zones = << >> THEN << >>
    ELSE LET n == Len(zones)
         IN  InsertDesc(SortedDesc(SubSeq(zones, 1, n - 1), stats), zones[n], stats)

\* The card with a missing baseline read as 0
CardBaseZero(zone, rank_idx, stats, baseline) ==
    LET pps == Get(stats, zone)
        base == IF zone \in DOMAIN baseline THEN Some(baseline[zone])
                ELSE Some(<< 0, 1 >>)
        fixed_zone == zone \in { "Paint", "Short Mid-Range" }
        delta == IF fixed_zone THEN Nothing
                 ELSE Some(FSub(pps[1], base[1]))
    IN  IF pps = Nothing
        THEN [ zone |-> zone, rank_idx |-> rank_idx, display |-> ZONE_DISPLAY(zone),
               pps |-> Nothing, color |-> Nothing, delta |-> Nothing,
               delta_str |-> "", delta_color |-> "" ]
        ELSE [ zone |-> zone, rank_idx |-> rank_idx, display |-> ZONE_DISPLAY(zone),
               pps |-> pps, color |-> Some(pps_to_hsl(pps[1], VMIN, VMAX)),
               delta |-> delta,
               delta_str |-> IF delta # Nothing THEN "{delta:+.3f} vs baseline"
                             ELSE "",
               delta_color |-> IF delta # Nothing
                               THEN IF FLe(<< 0, 1 >>, delta[1]) THEN "#2a9d2a"
                                    ELSE "#c0392b"
                               ELSE "#888" ]

\* The body of the loop over enumerate(ranked + missing, start=1): one card.
\* delta_str is the format string when a delta is shown, and "-" stands for the
\* dash shown when a variable zone has no baseline.
Card(zone, rank_idx, stats, baseline) ==
    LET pps == Get(stats, zone)
        base == Get(baseline, zone)
        fixed_zone == zone \in { "Paint", "Short Mid-Range" }
        delta == IF fixed_zone THEN Nothing
                 ELSE IF base # Nothing THEN Some(FSub(pps[1], base[1]))
                 ELSE Nothing
    IN  IF pps = Nothing
        THEN [ zone |-> zone, rank_idx |-> rank_idx, display |-> ZONE_DISPLAY(zone),
               pps |-> Nothing, color |-> Nothing, delta |-> Nothing,
               delta_str |-> "", delta_color |-> "" ]
        ELSE [ zone |-> zone, rank_idx |-> rank_idx, display |-> ZONE_DISPLAY(zone),
               pps |-> pps, color |-> Some(pps_to_hsl(pps[1], VMIN, VMAX)),
               delta |-> delta,
               delta_str |-> IF delta # Nothing THEN "{delta:+.3f} vs baseline"
                             ELSE IF fixed_zone THEN ""
                             ELSE "-",
               delta_color |-> IF delta # Nothing
                               THEN IF FLe(<< 0, 1 >>, delta[1]) THEN "#2a9d2a"
                                    ELSE "#c0392b"
                               ELSE "#888" ]

\* ranked, missing and the cards of col1
Cards(stats, baseline) ==
    CHOOSE out \in
      { [ i \in 1..Len(ranked \o missing) |->
            Card((ranked \o missing)[i], i, stats, baseline) ] :
          ranked \in { SortedDesc(FilterOrder(ZONE_ORDER, stats, TRUE), stats) },
          missing \in { FilterOrder(ZONE_ORDER, stats, FALSE) } } : TRUE

\* The shots a dataset is made of: one or two per zone, made and missed.
SampleShots ==
    { [ SHOT_DISTANCE |-> 500,  LOC_X |-> 30,   LOC_Y |-> 40,  SHOT_MADE_FLAG |-> 1 ],
      [ SHOT_DISTANCE |-> 1200, LOC_X |-> 0,    LOC_Y |-> 120, SHOT_MADE_FLAG |-> 0 ],
      [ SHOT_DISTANCE |-> 2000, LOC_X |-> 0,    LOC_Y |-> 200, SHOT_MADE_FLAG |-> 1 ],
      [ SHOT_DISTANCE |-> 2590, LOC_X |-> 245,  LOC_Y |-> 84,  SHOT_MADE_FLAG |-> 1 ],
      [ SHOT_DISTANCE |-> 2500, LOC_X |-> 150,  LOC_Y |-> 200, SHOT_MADE_FLAG |-> 1 ],
      [ SHOT_DISTANCE |-> 2500, LOC_X |-> -150, LOC_Y |-> 200, SHOT_MADE_FLAG |-> 0 ],
      [ SHOT_DISTANCE |-> 3000, LOC_X |-> 0,    LOC_Y |-> 300, SHOT_MADE_FLAG |-> 1 ] }

MaxShots == 2

Datasets == UNION { [ 1..n -> SampleShots ] : n \in 0..MaxShots }

Init ==
    /\ parquet \in Datasets
    /\ df = read_parquet(parquet)
    /\ line_dist = Nothing
    /\ df_processed = Nothing
    /\ zone_stats = Nothing
    /\ shot_pct = Nothing
    /\ baseline_stats = Nothing
    /\ cards = Nothing
    /\ IdleZones /\ IdleColor /\ IdleCalls

\* One run of the script from the slider to the last card.  compute_baseline
\* is cached (st.cache_data): it is computed in the first run only.
ScriptRun(dist) ==
    \E out \in { compute_zone_data(df, dist) },
       baseline \in { IF baseline_stats = Nothing THEN compute_baseline(df)
                      ELSE baseline_stats[1] } :
        /\ line_dist' = Some(dist)
        /\ baseline_stats' = Some(baseline)
        /\ df_processed' = Some(out.df)
        /\ zone_stats' = Some(out.zone_stats)
        /\ shot_pct' = Some(out.shot_pct)
        /\ cards' = Some(Cards(out.zone_stats, baseline))
        /\ UNCHANGED << row, arc, app_row, backend_row, pps_in, hue_out,
                        parquet, df, calls, heap >>

\* The first run of a session: the slider stands at its default, 23.75
FirstRun ==
    /\ line_dist = Nothing
    /\ ScriptRun(2375)

\* The user moves the slider and the script runs again
SliderRerun ==
    /\ line_dist # Nothing
    /\ \E dist \in SliderArcs : ScriptRun(dist)

Next == FirstRun \/ SliderRerun

Spec == Init /\ [][Next]_vars

\* The zones into which at least one shot of the file is classified at dist.
ClassifiedZones(dist) ==
    { simulate_new_zones(parquet[i], dist) : i \in 1..Len(parquet) }

\* C5: the key set of zone_stats and of shot_pct is exactly the set of zones
\* into which at least one shot was classified (a zone without shots is
\* absent), and every run, also over zero shots, ends with its cards shown.
C5_KeySet ==
    line_dist # Nothing =>
        /\ DOMAIN zone_stats[1] = ClassifiedZones(line_dist[1])
        /\ DOMAIN shot_pct[1] = ClassifiedZones(line_dist[1])
        /\ Len(parquet) = 0 => DOMAIN zone_stats[1] = {} /\ DOMAIN shot_pct[1] = {}
        /\ cards # Nothing

\* A run over zero shots has ended with an empty mapping.
C5_Witness ==
    /\ line_dist # Nothing
    /\ Len(parquet) = 0
    /\ DOMAIN zone_stats[1] = {}
    /\ cards # Nothing

Pos(z) == CHOOSE i \in 1..Len(ZONE_ORDER) : ZONE_ORDER[i] = z

\* C6: the cards are a permutation of the six zones, every zone with a mean
\* before every zone without; the zones with a mean in non-increasing order,
\* equal means in ZONE_ORDER order; the zones without in ZONE_ORDER order;
\* the rank numbers run 1..6.
C6_Ranking ==
    cards # Nothing =>
      LET c == cards[1]
          stats == zone_stats[1]
          has(i) == c[i].zone \in DOMAIN stats
      IN  /\ Len(c) = 6
          /\ { c[i].zone : i \in 1..Len(c) } = Zones
          /\ \A i \in 1..Len(c) : c[i].rank_idx = i
          /\ \A i, j \in 1..Len(c) : i < j =>
               /\ has(i) \/ ~has(j)
               /\ (has(i) /\ has(j)) =>
                    /\ FLe(stats[c[j].zone], stats[c[i].zone])
                    /\ stats[c[j].zone] = stats[c[i].zone]
                         => Pos(c[i].zone) < Pos(c[j].zone)
               /\ (~has(i) /\ ~has(j)) => Pos(c[i].zone) < Pos(c[j].zone)

\* A later zone of ZONE_ORDER with the higher mean is shown first, and some
\* zone has no data.
C6_Witness ==
    /\ cards # Nothing
    /\ cards[1][1].pps # Nothing /\ cards[1][2].pps # Nothing
    /\ Pos(cards[1][1].zone) > Pos(cards[1][2].zone)
    /\ FLt(cards[1][2].pps[1], cards[1][1].pps[1])
    /\ cards[1][6].pps = Nothing

VariableZones ==
    { "Long Mid-Range (Sim)", "Wing 3 (Sim)", "Corner 3 (Sim)", "Top of Key 3 (Sim)" }

\* C7: for a zone shown with data, a delta is computed iff the zone is a
\* variable zone that has a mean at 23.75 ft, and it is the mean at the arc
\* distance minus that baseline mean; Paint and Short Mid-Range never get one;
\* a variable zone missing from the baseline shows the dash; at 23.75 every
\* computed delta is 0.
C7_Delta ==
    cards # Nothing =>
      \A i \in 1..Len(cards[1]) :
        LET c == cards[1][i]
            variable == c.zone \in VariableZones
            inBase == c.zone \in ClassifiedZones(2375)
        IN  c.pps # Nothing =>
              /\ (c.delta # Nothing) <=> (variable /\ inBase)
              /\ c.delta # Nothing =>
                   /\ c.delta[1] = FSub(zone_stats[1][c.zone], baseline_stats[1][c.zone])
                   /\ c.delta_str = "{delta:+.3f} vs baseline"
                   /\ line_dist[1] = 2375 => c.delta[1] = << 0, 1 >>
              /\ ~variable => c.delta_str = ""
              /\ (variable /\ ~inBase) => c.delta_str = "-"

\* A delta that is computed and is not 0.
C7_Witness ==
    /\ cards # Nothing
    /\ \E i \in 1..Len(cards[1]) :
         /\ cards[1][i].delta # Nothing
         /\ cards[1][i].delta[1] # << 0, 1 >>

\* A variable zone with data and no baseline shows the dash.
C7_Dash ==
    /\ cards # Nothing
    /\ \E i \in 1..Len(cards[1]) :
         /\ cards[1][i].pps # Nothing
         /\ cards[1][i].delta_str = "-"

(***************************************************************************)
(* Concurrent invocations of the pipeline over the shared dataset          *)
(***************************************************************************)
\* df_sim.apply(simulate_new_zones, args=(line_dist,), axis=1), backend.py's function
ApplyZonesBackend(frame, dist) ==
    [ i \in 1..Len(frame.rows) |-> backend_simulate_new_zones(frame.rows[i], dist) ]

\* groupby('SIM_ZONE').agg({'SIM_PTS': 'mean', 'SHOT_MADE_FLAG': 'count'})
\*   .rename(columns={'SIM_PTS': 'pps', 'SHOT_MADE_FLAG': 'volume'}).to_dict(orient='index')
BackendStats(frame) ==
    [ z \in GroupKeys(frame) |->
        [ pps |-> Frac(SumOver(frame, "SIM_PTS", GroupIdx(frame, z)),
                       Cardinality(GroupIdx(frame, z))),
          volume |-> Cardinality(GroupIdx(frame, z)) ] ]

\* calculate(), run alone over the frame: the JSON body of the response
calculate(frame, dist) ==
    CHOOSE out \in
      { BackendStats(d3) :
          d3 \in { SetColumn(d2, "SIM_PTS", ApplyPts(d2)) :
          d2 \in { SetColumn(d1, "SIM_ZONE", ApplyZonesBackend(d1, dist)) :
          d1 \in { Copy(frame) } } } } : TRUE

MaxCalls == 2

Callers == 1..MaxCalls

\* The arc distances the concurrent invocations ask for.
CallArcs == { 2375, 2700 }

CallShots ==
    { [ SHOT_DISTANCE |-> 500,  LOC_X |-> 30,  LOC_Y |-> 40,  SHOT_MADE_FLAG |-> 1 ],
      [ SHOT_DISTANCE |-> 2590, LOC_X |-> 245, LOC_Y |-> 84,  SHOT_MADE_FLAG |-> 1 ],
      [ SHOT_DISTANCE |-> 2500, LOC_X |-> 150, LOC_Y |-> 200, SHOT_MADE_FLAG |-> 1 ] }

\* Frame references: 0 is the module-level df, i > 0 the frame invocation i owns.
Deref(ref) == IF ref = 0 THEN df ELSE heap[ref][1]

\* The write of a frame through a reference
Store(ref, frame) ==
    IF ref = 0
    THEN df' = frame /\ UNCHANGED heap
    ELSE heap' = [ heap EXCEPT ![ref] = Some(frame) ] /\ UNCHANGED df

\* df_sim = df: the invocation works on the shared frame itself
AliasRef(i) == 0

\* df_sim = df.copy(): the invocation's frame is an object of its own
CopyRef(i) == i

InitCalls ==
    /\ parquet \in UNION { [ 1..n -> CallShots ] : n \in 0..MaxShots }
    /\ df = read_parquet(parquet)
    /\ calls = [ i \in Callers |->
                   [ pc |-> "idle", kind |-> "", line_dist |-> 0, df_sim |-> 0,
                     result |-> Nothing ] ]
    /\ heap = [ i \in Callers |-> Nothing ]
    /\ line_dist = Nothing /\ df_processed = Nothing /\ zone_stats = Nothing
    /\ shot_pct = Nothing /\ baseline_stats = Nothing /\ cards = Nothing
    /\ IdleZones /\ IdleColor

OtherUnchanged ==
    UNCHANGED << row, arc, app_row, backend_row, pps_in, hue_out, parquet,
                 line_dist, df_processed, zone_stats, shot_pct, baseline_stats,
                 cards >>

\* line_dist = data.get('threePtDistance', 23.75); df_sim = df.copy()
\* (backend.py calculate), or df = _df.copy() (app.py compute_zone_data)
CallCopy(i) ==
    /\ calls[i].pc = "idle"
    /\ \E kind \in { "app", "backend" }, dist \in CallArcs :
         /\ calls' = [ calls EXCEPT ![i] =
                         [ pc |-> "zones", kind |-> kind, line_dist |-> dist,
                           df_sim |-> CopyRef(i), result |-> Nothing ] ]
         /\ Store(CopyRef(i), Copy(df))
    /\ OtherUnchanged

\* df_sim['SIM_ZONE'] = df_sim.apply(simulate_new_zones, args=(line_dist,), axis=1)
CallZones(i) ==
    /\ calls[i].pc = "zones"
    /\ \E frame \in { Deref(calls[i].df_sim) } :
         Store(calls[i].df_sim,
               SetColumn(frame, "SIM_ZONE",
                         IF calls[i].kind = "app"
                         THEN ApplyZones(frame, calls[i].line_dist)
                         ELSE ApplyZonesBackend(frame, calls[i].line_dist)))
    /\ calls' = [ calls EXCEPT ![i].pc = "pts" ]
    /\ OtherUnchanged

\* df_sim['SIM_PTS'] = df_sim['SIM_ZONE'].apply(...) * df_sim['SHOT_MADE_FLAG']
CallPts(i) ==
    /\ calls[i].pc = "pts"
    /\ \E frame \in { Deref(calls[i].df_sim) } :
         Store(calls[i].df_sim, SetColumn(frame, "SIM_PTS", ApplyPts(frame)))
    /\ calls' = [ calls EXCEPT ![i].pc = "agg" ]
    /\ OtherUnchanged

\* The groupby and the return: jsonify(stats), or (df, zone_stats, shot_pct)
CallReturn(i) ==
    /\ calls[i].pc = "agg"
    /\ \E frame \in { Deref(calls[i].df_sim) } :
         calls' = [ calls EXCEPT
                      ![i].pc = "done",
                      ![i].result =
                          Some(IF calls[i].kind = "app"
                               THEN [ df |-> frame,
                                      zone_stats |-> GroupMean(frame),
                                      shot_pct |-> SharePct(GroupSize(frame)) ]
                               ELSE BackendStats(frame)) ]
    /\ UNCHANGED << df, heap >>
    /\ OtherUnchanged

NextCalls ==
    \E i \in Callers : CallCopy(i) \/ CallZones(i) \/ CallPts(i) \/ CallReturn(i)

SpecCalls == InitCalls /\ [][NextCalls]_vars

\* What invocation i returns when it runs alone over the loaded file.
Alone(i) ==
    IF calls[i].kind = "app"
    THEN compute_zone_data(read_parquet(parquet), calls[i].line_dist)
    ELSE calculate(read_parquet(parquet), calls[i].line_dist)

\* C9: under every interleaving the shared df stays the loaded file (no
\* SIM_ZONE or SIM_PTS column, no row changed), each finished invocation
\* returns what it returns when run alone with its arc distance, and two
\* invocations of the same handler and arc distance return the same.
C9_NonInterference ==
    /\ df = read_parquet(parquet)
    /\ \A i \in Callers : calls[i].pc = "done" => calls[i].result[1] = Alone(i)
    /\ \A i, j \in Callers :
         (/\ calls[i].pc = "done" /\ calls[j].pc = "done"
          /\ calls[i].kind = calls[j].kind
          /\ calls[i].line_dist = calls[j].line_dist)
            => calls[i].result = calls[j].result

\* Two invocations with different arc distances ran interleaved (the second
\* copied and labelled its frame while the first was between its steps) and
\* returned different results.
C9_Witness ==
    /\ Len(parquet) > 0
    /\ \E i, j \in Callers :
         /\ i # j
         /\ calls[i].pc = "done" /\ calls[j].pc = "agg"
         /\ calls[i].kind = calls[j].kind
         /\ calls[i].line_dist # calls[j].line_dist
         /\ calls[i].result[1] # Alone(j)

====
